---- MODULE Spec2Model ----
(***************************************************************************)
(* Model of the invoice query service (src/main.py): a FastAPI application *)
(* with one POST endpoint that hands a question to a SQL agent, one GET    *)
(* health endpoint, a process-wide database singleton and a keep-alive job *)
(* run by an APScheduler BackgroundScheduler in a worker thread.           *)
(***************************************************************************)
EXTENDS Integers, Sequences, FiniteSets, TLC

(* ------------------------------ bounds -------------------------------- *)
\* number of request slots served concurrently
NumRequests == 2
\* number of times the interval trigger comes due in a behaviour
MaxFires == 2
\* longest free-text input handed to normalization
MaxLen == 3

(* --------------------------- program constants ------------------------ *)
\* scheduler.add_job(keep_connection_alive, 'interval', seconds=999999)
IntervalSeconds == 999999
\* "# Schedule the keep_connection_alive task to run every 10 seconds"
DocumentedIntervalSeconds == 10
\* top_k = 10 in handle_query
top_k == 10
\* "top_k=30 for this session" in the prefix handed to the agent
PromptTopK == 30
\* HTTPException(status_code=500, ...)
StatusError == 500
\* status of a response a handler returns normally
StatusOK == 200

FixedDetail == "An error occurred while processing the request."
\* body of the framework's response to an exception no handler caught
FrameworkErrorBody == "Internal Server Error"
WelcomeMessage == "Welcome to my FastAPI app!"

Requests == 1..NumRequests
\* exceptions (subclasses of Exception) the database can raise
DbExceptions == {"OperationalError"}
\* exceptions (subclasses of Exception) the orchestration can raise: the
\* database's, and those of the LLM client and the agent framework
Exceptions == DbExceptions \cup {"APIError"}
\* bodies of POST /query/: a question that states no limit, and the same
\* question in another case and with punctuation
Questions == {"list the vendors", "List the Vendors."}
\* the agent's final "output" field
Outputs == {"| Vendor |"}

\* no connection / no handle
None == 0
\* holder of the event loop when no coroutine is running on it
Free == 0

VARIABLES
    app,            \* process lifecycle: created, serving, stopping, stopped
    running,        \* the BackgroundScheduler's state (started and not shut down)
    jobs,           \* the scheduler's job store: job name -> next_run_time
    now,            \* wall clock, in seconds since import
    fires,          \* how many times the trigger has come due
    runStarts,      \* start times of the keep_connection_alive runs
    ka,             \* the worker thread's run of keep_connection_alive, its log
    kaFailures,     \* runs of keep_connection_alive that hit an exception
    instance,       \* SingletonSQLDatabase's stored instance (None before)
    constructed,    \* number of database connections constructed so far
    loop,           \* request whose coroutine occupies the event loop
    req,            \* per request slot: position, inputs, locals, response, log
    last,           \* the request accepted last: after a failed keep-alive run?
                    \* during the keep-alive run still in progress?
    nInput,         \* a free text, as a sequence of characters
    nOut            \* results of applying the normalization policy to it, in turn

vars == <<app, running, jobs, now, fires, runStarts, ka, kaFailures, instance,
          constructed, loop, req, last, nInput, nOut>>

serverVars == <<app, running, jobs, now, fires, runStarts, ka, kaFailures,
                instance, constructed, loop, req, last>>
normVars == <<nInput, nOut>>

NoResponse == [status |-> 0, field |-> "none", text |-> ""]

IdleRequest == [pc |-> "idle", method |-> "none", userinput |-> "", db |-> None,
                top_k |-> 0, human_message |-> <<>>, invoked |-> <<>>,
                invocations |-> 0, response |-> NoResponse, exc |-> "none",
                excAt |-> "none", logged |-> "none"]

\* exc: the exception raised inside the last run; outcome: how the last run
\* left keep_connection_alive (returned / raised); logged: what the last run
\* wrote to the log (info, or the exception)
IdleKeeper == [pc |-> "idle", db |-> None, exc |-> "none", outcome |-> "none",
               logged |-> "none"]

ServerInit ==
    /\ app = "created"
    /\ running = FALSE
    /\ jobs = [keep_connection_alive |-> IntervalSeconds]
    /\ now = 0
    /\ fires = 0
    /\ runStarts = <<>>
    /\ ka = IdleKeeper
    /\ kaFailures = 0
    /\ instance = None
    /\ constructed = 0
    /\ loop = Free
    /\ req = [r \in Requests |-> IdleRequest]
    /\ last = [r |-> 0, afterKaFailure |-> FALSE, duringRun |-> FALSE]

NormIdle ==
    /\ nInput = <<>>
    /\ nOut = <<>>

Init == ServerInit /\ NormIdle

(* ------------------------- Database Accessor --------------------------- *)
\* SingletonSQLDatabase.get_instance() returning the handle h: the stored
\* instance, constructed on the first call that succeeds
get_instance(h) ==
    IF instance # None
    THEN /\ h = instance
         /\ UNCHANGED <<instance, constructed>>
    ELSE /\ h = constructed + 1
         /\ instance' = h
         /\ constructed' = constructed + 1

\* SingletonSQLDatabase.get_instance() raising: construction failed, nothing
\* is stored and the next caller constructs again
get_instance_raises ==
    /\ instance = None
    /\ UNCHANGED <<instance, constructed>>

(* --------------------------- process lifecycle ------------------------- *)
\* @app.on_event("startup"): scheduler.start()
startup ==
    /\ app = "created"
    /\ app' = "serving"
    /\ running' = TRUE
    /\ UNCHANGED <<jobs, now, fires, runStarts, ka, kaFailures, instance,
                   constructed, loop, req, last, normVars>>

\* a shutdown handler that leaves the scheduler running
shutdown_without_stopping ==
    /\ app = "serving"
    /\ \A r \in Requests : req[r].pc = "idle"
    /\ app' = "stopping"
    /\ UNCHANGED <<running, jobs, now, fires, runStarts, ka, kaFailures, instance,
                   constructed, loop, req, last, normVars>>

\* @app.on_event("shutdown"): scheduler.shutdown() is called once the server
\* has drained its requests; the scheduler stops scheduling at once
shutdown ==
    /\ app = "serving"
    /\ \A r \in Requests : req[r].pc = "idle"
    /\ app' = "stopping"
    /\ running' = FALSE
    /\ UNCHANGED <<jobs, now, fires, runStarts, ka, kaFailures, instance,
                   constructed, loop, req, last, normVars>>

\* scheduler.shutdown(wait=True) returns when the running job has finished
shutdown_returns ==
    /\ app = "stopping"
    /\ ka.pc = "idle"
    /\ app' = "stopped"
    /\ UNCHANGED <<running, jobs, now, fires, runStarts, ka, kaFailures,
                   instance, constructed, loop, req, last, normVars>>

(* --------------------------- Connection Keeper ------------------------- *)
\* holder of the event loop when the keep-alive job runs on it
Keeper == NumRequests + 1

\* a scheduler that runs the job on the event loop instead of a worker thread
scheduler_fire_on_loop ==
    /\ running
    /\ fires < MaxFires
    /\ now' = jobs.keep_connection_alive
    /\ jobs' = [jobs EXCEPT !.keep_connection_alive = @ + IntervalSeconds]
    /\ fires' = fires + 1
    /\ \/ /\ ka.pc = "idle"
          /\ loop = Free
          /\ loop' = Keeper
          /\ ka' = [IdleKeeper EXCEPT !.pc = "get_instance"]
          /\ runStarts' = Append(runStarts, now')
       \/ /\ ka.pc # "idle"
          /\ UNCHANGED <<ka, runStarts, loop>>
    /\ UNCHANGED <<app, running, kaFailures, instance, constructed, req, last,
                   normVars>>

\* The interval trigger of the job added at import comes due: time has
\* advanced to next_run_time, the next run is one interval later, and the
\* job is submitted to the scheduler's thread pool unless its previous run
\* is still in progress (max_instances = 1).
scheduler_fire ==
    /\ running
    /\ fires < MaxFires
    /\ now' = jobs.keep_connection_alive
    /\ jobs' = [jobs EXCEPT !.keep_connection_alive = @ + IntervalSeconds]
    /\ fires' = fires + 1
    /\ \/ /\ ka.pc = "idle"
          /\ ka' = [IdleKeeper EXCEPT !.pc = "get_instance"]
          /\ runStarts' = Append(runStarts, now')
       \/ /\ ka.pc # "idle"
          /\ UNCHANGED <<ka, runStarts>>
    /\ UNCHANGED <<app, running, kaFailures, instance, constructed, loop, req,
                   last, normVars>>

\* keep_connection_alive without its except clause: the exception leaves it
keep_connection_alive_unguarded ==
    \/ /\ ka.pc = "get_instance"
       /\ \/ /\ \E h \in 1..(constructed + 1) :
                   /\ get_instance(h)
                   /\ ka' = [ka EXCEPT !.pc = "run", !.db = h]
             /\ UNCHANGED kaFailures
          \/ /\ get_instance_raises
             /\ \E e \in DbExceptions :
                   ka' = [IdleKeeper EXCEPT !.exc = e, !.outcome = "raised"]
             /\ kaFailures' = kaFailures + 1
    \/ /\ ka.pc = "run"
       /\ \/ /\ ka' = [IdleKeeper EXCEPT !.outcome = "returned", !.logged = "info"]
             /\ UNCHANGED kaFailures
          \/ /\ \E e \in DbExceptions :
                   ka' = [IdleKeeper EXCEPT !.exc = e, !.outcome = "raised"]
             /\ kaFailures' = kaFailures + 1
       /\ UNCHANGED <<instance, constructed>>

\* keep_connection_alive with an except clause that also drops the singleton
\* when the ping fails
keep_connection_alive_resetting ==
    \/ /\ ka.pc = "get_instance"
       /\ \/ /\ \E h \in 1..(constructed + 1) :
                   /\ get_instance(h)
                   /\ ka' = [ka EXCEPT !.pc = "run", !.db = h]
             /\ UNCHANGED kaFailures
          \/ /\ get_instance_raises
             /\ \E e \in DbExceptions :
                   ka' = [IdleKeeper EXCEPT !.exc = e, !.outcome = "returned",
                                            !.logged = e]
             /\ kaFailures' = kaFailures + 1
    \/ /\ ka.pc = "run"
       /\ \/ /\ ka' = [IdleKeeper EXCEPT !.outcome = "returned", !.logged = "info"]
             /\ UNCHANGED <<kaFailures, instance>>
          \/ /\ \E e \in DbExceptions :
                   ka' = [IdleKeeper EXCEPT !.exc = e, !.outcome = "returned",
                                            !.logged = e]
             /\ kaFailures' = kaFailures + 1
             /\ instance' = None
       /\ UNCHANGED constructed

\* keep_connection_alive, one statement of its try block at a time, in the
\* scheduler's worker thread
keep_connection_alive ==
    \/ /\ ka.pc = "get_instance"
       /\ \/ /\ \E h \in 1..(constructed + 1) :
                   /\ get_instance(h)
                   /\ ka' = [ka EXCEPT !.pc = "run", !.db = h]
             /\ UNCHANGED kaFailures
          \/ /\ get_instance_raises
             /\ \E e \in DbExceptions :
                   ka' = [IdleKeeper EXCEPT !.exc = e, !.outcome = "returned",
                                            !.logged = e]
             /\ kaFailures' = kaFailures + 1
    \/ /\ ka.pc = "run"
       /\ \/ /\ ka' = [IdleKeeper EXCEPT !.outcome = "returned", !.logged = "info"]
             /\ UNCHANGED kaFailures
          \/ /\ \E e \in DbExceptions :
                   ka' = [IdleKeeper EXCEPT !.exc = e, !.outcome = "returned",
                                            !.logged = e]
             /\ kaFailures' = kaFailures + 1
       /\ UNCHANGED <<instance, constructed>>

\* last.duringRun: the last request was accepted during the run in progress
keeper_step ==
    /\ keep_connection_alive
    /\ last' = [last EXCEPT !.duringRun = (@ /\ ka'.pc # "idle")]
    /\ UNCHANGED <<app, running, jobs, now, fires, runStarts, loop, req, normVars>>

(* ----------------------- Query Normalization Policy -------------------- *)
\* "Query Normalization Guidelines / Input Transformation" of the prefix
UpperCase == <<"A", "B", "C", "D", "E", "F", "G", "H", "I", "J", "K", "L", "M",
               "N", "O", "P", "Q", "R", "S", "T", "U", "V", "W", "X", "Y", "Z">>
LowerCase == <<"a", "b", "c", "d", "e", "f", "g", "h", "i", "j", "k", "l", "m",
               "n", "o", "p", "q", "r", "s", "t", "u", "v", "w", "x", "y", "z">>
\* "punctuation characters (e.g., -, _, ,, .)"
Punctuation == {"-", "_", ",", "."}

Lower(c) ==
    IF \E i \in DOMAIN UpperCase : UpperCase[i] = c
    THEN LowerCase[CHOOSE i \in DOMAIN UpperCase : UpperCase[i] = c]
    ELSE c

\* 1. "Convert all input text to lowercase"
ToLower(s) == [i \in DOMAIN s |-> Lower(s[i])]

\* 2. "Replace punctuation characters ... with spaces"
ReplacePunctuation(s) ==
    [i \in DOMAIN s |-> IF s[i] \in Punctuation THEN " " ELSE s[i]]

\* 3. "Remove leading and trailing whitespaces"
RECURSIVE Trim(_)
Trim(s) ==
    IF s = <<>> THEN s
    ELSE IF Head(s) = " " THEN Trim(Tail(s))
    ELSE IF s[Len(s)] = " " THEN Trim(SubSeq(s, 1, Len(s) - 1))
    ELSE s

\* 3. "collapse multiple spaces into a single space"
RECURSIVE CollapseSpaces(_)
CollapseSpaces(s) ==
    IF Len(s) < 2 THEN s
    ELSE IF s[1] = " " /\ s[2] = " " THEN CollapseSpaces(Tail(s))
    ELSE <<Head(s)>> \o CollapseSpaces(Tail(s))

\* a slip in the order of the steps: trimming before the punctuation is replaced
NormalizeTrimFirst(s) == CollapseSpaces(ReplacePunctuation(Trim(ToLower(s))))

\* the three steps, in the order the guidelines list them
Normalize(s) == CollapseSpaces(Trim(ReplacePunctuation(ToLower(s))))

(* --------------------------- request texts ----------------------------- *)
\* the characters of a request body's question text
Chars(q) ==
    CASE q = "list the vendors" ->
           <<"l", "i", "s", "t", " ", "t", "h", "e", " ", "v", "e", "n",
           "d", "o", "r", "s">>
      [] q = "List the Vendors." ->
           <<"L", "i", "s", "t", " ", "t", "h", "e", " ", "V", "e", "n",
           "d", "o", "r", "s", ".">>

\* str() of the ModelInput parsed from the body {"userinput": <text>}: the
\* model's field and the repr of its value
ModelInputStr(q) ==
    <<"u", "s", "e", "r", "i", "n", "p", "u", "t", "=", "'">> \o Chars(q) \o <<"'">>

\* "Now answer this query: "
NowAnswerThisQuery ==
    <<"N", "o", "w", " ", "a", "n", "s", "w", "e", "r", " ", "t",
    "h", "i", "s", " ", "q", "u", "e", "r", "y", ":", " ">>

\* HumanMessagePromptTemplate.from_template("{input}").format(input=userinput)
HumanMessage(q) == ModelInputStr(q)

\* f"Now answer this query: {userinput}"
AgentInput(q) == NowAnswerThisQuery \o ModelInputStr(q)

(* ------------------------------ HTTP Surface --------------------------- *)
\* the server accepts a request on the event loop and routes it
accept(r) ==
    /\ app = "serving"
    /\ loop = Free
    /\ req[r].pc = "idle"
    /\ \/ \E q \in Questions :
             req' = [req EXCEPT ![r] = [IdleRequest EXCEPT
                        !.pc = "get_db_connection", !.method = "POST",
                        !.userinput = q]]
       \/ req' = [req EXCEPT ![r] = [IdleRequest EXCEPT
                        !.pc = "read_root", !.method = "GET"]]
    /\ last' = [r |-> r, afterKaFailure |-> (kaFailures > 0),
                duringRun |-> (ka.pc # "idle")]
    /\ UNCHANGED <<app, running, jobs, now, fires, runStarts, ka, kaFailures,
                   instance, constructed, loop, normVars>>

\* a get_db_connection that opens a connection of its own for each request
get_db_connection_fresh(r) ==
    /\ req[r].pc = "get_db_connection"
    /\ req' = [req EXCEPT ![r].pc = "handle_query", ![r].db = constructed + 1]
    /\ constructed' = constructed + 1
    /\ UNCHANGED <<app, running, jobs, now, fires, runStarts, ka, kaFailures,
                   instance, loop, last, normVars>>

\* Depends(get_db_connection): a plain function, resolved in the framework's
\* thread pool before the handler is entered.  An exception it raises is
\* caught by no handler of the application: the framework logs it and
\* answers with its own 500.
get_db_connection(r) ==
    /\ req[r].pc = "get_db_connection"
    /\ \/ \E h \in 1..(constructed + 1) :
             /\ get_instance(h)
             /\ req' = [req EXCEPT ![r].pc = "handle_query", ![r].db = h]
       \/ /\ get_instance_raises
          /\ \E e \in DbExceptions :
                req' = [req EXCEPT ![r].pc = "done", ![r].exc = e,
                           ![r].excAt = "get_db_connection", ![r].logged = e,
                           ![r].response = [status |-> StatusError, field |-> "plain",
                                            text |-> FrameworkErrorBody]]
    /\ UNCHANGED <<app, running, jobs, now, fires, runStarts, ka, kaFailures,
                   loop, last, normVars>>

\* an except clause that hands the exception's text to the client
handle_query_except_leaking(r, e) ==
    /\ req' = [req EXCEPT ![r].pc = "done", ![r].exc = e,
                  ![r].excAt = "handle_query", ![r].logged = e,
                  ![r].response = [status |-> StatusError, field |-> "detail",
                                   text |-> e]]
    /\ loop' = Free

\* the except clause of handle_query for the exception e
handle_query_except(r, e) ==
    /\ req' = [req EXCEPT ![r].pc = "done", ![r].exc = e,
                  ![r].excAt = "handle_query", ![r].logged = e,
                  ![r].response = [status |-> StatusError, field |-> "detail",
                                   text |-> FixedDetail]]
    /\ loop' = Free

\* str() of a ModelInput whose text went through the normalization policy
NormalizedInputStr(q) ==
    <<"u", "s", "e", "r", "i", "n", "p", "u", "t", "=", "'">>
        \o Normalize(Chars(q)) \o <<"'">>

\* a handle_query that applies the normalization policy to the question
\* before it builds the human message and the agent's input
handle_query_normalizing(r) ==
    \/ /\ req[r].pc = "handle_query"
       /\ loop = Free
       /\ \/ /\ req' = [req EXCEPT ![r].pc = "invoke", ![r].top_k = top_k,
                              ![r].human_message = NormalizedInputStr(req[r].userinput),
                              ![r].invoked = NowAnswerThisQuery
                                   \o NormalizedInputStr(req[r].userinput),
                              ![r].invocations = @ + 1]
             /\ loop' = r
          \/ \E e \in Exceptions : handle_query_except(r, e)
    \/ /\ req[r].pc = "invoke"
       /\ loop = r
       /\ \/ /\ \E o \in Outputs :
                   req' = [req EXCEPT ![r].pc = "done",
                              ![r].response = [status |-> StatusOK,
                                               field |-> "response", text |-> o]]
             /\ loop' = Free
          \/ \E e \in Exceptions : handle_query_except(r, e)

\* a handle_query that does not hold the event loop while it runs (its
\* blocking calls awaited or moved to a thread)
handle_query_off_loop(r) ==
    \/ /\ req[r].pc = "handle_query"
       /\ \/ /\ req' = [req EXCEPT ![r].pc = "invoke", ![r].top_k = top_k,
                              ![r].human_message = HumanMessage(req[r].userinput),
                              ![r].invoked = AgentInput(req[r].userinput),
                              ![r].invocations = @ + 1]
             /\ loop' = loop
          \/ \E e \in Exceptions : handle_query_except(r, e)
    \/ /\ req[r].pc = "invoke"
       /\ \/ /\ \E o \in Outputs :
                   req' = [req EXCEPT ![r].pc = "done",
                              ![r].response = [status |-> StatusOK,
                                               field |-> "response", text |-> o]]
             /\ loop' = Free
          \/ \E e \in Exceptions : handle_query_except(r, e)

\* handle_query: a coroutine without an await, so it holds the event loop
\* from its first statement to its return.  First step: the LLM client, the
\* toolkit, top_k, the prompt and the agent are built and agent_executor.invoke
\* is called; second step: the agent returns and its "output" is returned,
\* or it raises.
handle_query(r) ==
    \/ /\ req[r].pc = "handle_query"
       /\ loop = Free
       /\ \/ /\ req' = [req EXCEPT ![r].pc = "invoke", ![r].top_k = top_k,
                              ![r].human_message = HumanMessage(req[r].userinput),
                              ![r].invoked = AgentInput(req[r].userinput),
                              ![r].invocations = @ + 1]
             /\ loop' = r
          \/ \E e \in Exceptions : handle_query_except(r, e)
    \/ /\ req[r].pc = "invoke"
       /\ loop = r
       /\ \/ /\ \E o \in Outputs :
                   req' = [req EXCEPT ![r].pc = "done",
                              ![r].response = [status |-> StatusOK,
                                               field |-> "response", text |-> o]]
             /\ loop' = Free
          \/ \E e \in Exceptions : handle_query_except(r, e)

query_step(r) ==
    /\ handle_query(r)
    /\ UNCHANGED <<app, running, jobs, now, fires, runStarts, ka, kaFailures,
                   instance, constructed, last, normVars>>

\* @app.get("/"): a plain function, run in the framework's thread pool
read_root(r) ==
    /\ req[r].pc = "read_root"
    /\ req' = [req EXCEPT ![r].pc = "done",
                  ![r].response = [status |-> StatusOK, field |-> "message",
                                   text |-> WelcomeMessage]]
    /\ UNCHANGED <<app, running, jobs, now, fires, runStarts, ka, kaFailures,
                   instance, constructed, loop, last, normVars>>

\* the response has been written to the client; the slot serves the next request
respond(r) ==
    /\ req[r].pc = "done"
    /\ loop = Free
    /\ req' = [req EXCEPT ![r] = IdleRequest]
    /\ UNCHANGED <<app, running, jobs, now, fires, runStarts, ka, kaFailures,
                   instance, constructed, loop, last, normVars>>

Next ==
    \/ startup
    \/ shutdown
    \/ shutdown_returns
    \/ scheduler_fire
    \/ keeper_step
    \/ \E r \in Requests : accept(r)
    \/ \E r \in Requests : get_db_connection(r)
    \/ \E r \in Requests : query_step(r)
    \/ \E r \in Requests : read_root(r)
    \/ \E r \in Requests : respond(r)

Spec == Init /\ [][Next]_vars

(* ------------------- normalization applied to texts ------------------- *)
\* characters of the free texts explored: a lower-case and an upper-case
\* letter, a punctuation character and the space
NormAlphabet == {"a", "B", "-", " "}

RECURSIVE TextsUpTo(_)
TextsUpTo(n) ==
    IF n = 0 THEN {<<>>}
    ELSE LET shorter == TextsUpTo(n - 1)
         IN  shorter \cup {Append(t, c) : t \in shorter, c \in NormAlphabet}

\* "Vendor-Name, Inc."
VendorExample1 == <<"V", "e", "n", "d", "o", "r", "-", "N", "a", "m", "e", ",",
                    " ", "I", "n", "c", ".">>
\* "vendor name inc"
VendorExample2 == <<"v", "e", "n", "d", "o", "r", " ", "n", "a", "m", "e", " ",
                    "i", "n", "c">>
\* "VENDOR   NAME INC"
VendorExample3 == <<"V", "E", "N", "D", "O", "R", " ", " ", " ", "N", "A", "M",
                    "E", " ", "I", "N", "C">>
VendorExamples == {VendorExample1, VendorExample2, VendorExample3}

NormInit ==
    /\ ServerInit
    /\ nInput \in TextsUpTo(MaxLen) \cup VendorExamples
    /\ nOut = <<>>

\* the policy applied to the text, then to its own result
apply_normalization ==
    /\ Len(nOut) < 2
    /\ nOut' = Append(nOut, Normalize(IF nOut = <<>> THEN nInput ELSE nOut[Len(nOut)]))
    /\ UNCHANGED <<nInput, serverVars>>

NormNext == apply_normalization

SpecNorm == NormInit /\ [][NormNext]_vars

(* ------------------------------ properties ----------------------------- *)
ErrorResponse == [status |-> StatusError, field |-> "detail", text |-> FixedDetail]

\* C1: whenever an exception was raised inside handle_query's orchestration
\* (building the client, toolkit, prompt or agent, or invoking the agent), the
\* client's response is status 500 with exactly the fixed detail string, and
\* nothing of the exception is in it.
C1_OrchestrationFailureIsFixed500 ==
    \A r \in Requests :
        (req[r].pc = "done" /\ req[r].excAt = "handle_query") =>
            /\ req[r].response = ErrorResponse
            /\ req[r].response.text \notin Exceptions

\* a request whose agent invocation raised has been answered
C1_Witness ==
    \E r \in Requests :
        /\ req[r].pc = "done"
        /\ req[r].excAt = "handle_query"
        /\ req[r].top_k = top_k
        /\ req[r].exc = "APIError"

\* C2: on any internal failure while serving POST /query/, a failure of
\* get_instance() during dependency resolution included, the response is a
\* 500 carrying the same fixed detail message, and the exception is logged.
C2_AnyFailureIsFixed500 ==
    \A r \in Requests :
        (req[r].pc = "done" /\ req[r].exc # "none") =>
            /\ req[r].response = ErrorResponse
            /\ req[r].logged = req[r].exc

\* C3: no exception leaves keep_connection_alive, every failure of a run is
\* logged, and after any number of failed runs the job is still in the job
\* store and comes due again as long as the scheduler is started.
C3_KeepAliveFailureSwallowed ==
    /\ ka.outcome # "raised"
    /\ ka.exc # "none" => (ka.outcome = "returned" /\ ka.logged = ka.exc)
    /\ "keep_connection_alive" \in DOMAIN jobs
    /\ (running /\ kaFailures > 0 /\ fires < MaxFires) => ENABLED scheduler_fire

\* a run is in progress after an earlier run failed
C3_Witness ==
    /\ kaFailures > 0
    /\ ka.pc = "run"
    /\ Len(runStarts) > 1

\* C4: a failing keep_connection_alive run leaves behind nothing a request
\* depends on: the step in which a run fails changes neither the singleton,
\* nor any request, nor the event loop, nor the scheduler; so a request
\* accepted afterwards is executed and can complete with a {response} body.
C4_KeepAliveFailureLeavesNoState ==
    [][kaFailures' # kaFailures =>
          UNCHANGED <<instance, constructed, req, loop, app, running, jobs>>]_vars

\* a request accepted after a failed keep-alive run completed with a response
C4_Witness ==
    \E r \in Requests :
        /\ last.r = r
        /\ last.afterKaFailure
        /\ req[r].pc = "done"
        /\ req[r].response.status = StatusOK
        /\ req[r].response.field = "response"

C6_RunsOnlyWhileServing ==
    [][Len(runStarts') > Len(runStarts) => (app = "serving" /\ running)]_vars

\* the process has shut down after the keep-alive job ran
C6_Witness ==
    /\ app = "stopped"
    /\ Len(runStarts) > 0

\* C7: while a keep_connection_alive run is in progress, the event loop is
\* not held by it: a request can be accepted, and every request in flight
\* has its next step enabled unless another request's handler holds the loop.
C7_KeepAliveDoesNotBlockRequests ==
    (ka.pc # "idle" /\ app = "serving") =>
        \A r \in Requests :
            /\ (req[r].pc = "idle" /\ loop \notin Requests) => ENABLED accept(r)
            /\ req[r].pc = "get_db_connection" => ENABLED get_db_connection(r)
            /\ req[r].pc = "read_root" => ENABLED read_root(r)
            /\ (req[r].pc = "handle_query" /\ loop \notin Requests) =>
                   ENABLED query_step(r)
            /\ req[r].pc = "invoke" => ENABLED query_step(r)
            /\ (req[r].pc = "done" /\ loop \notin Requests) => ENABLED respond(r)

\* a POST /query/ accepted during the run still in progress has completed
C7_Witness ==
    \E r \in Requests :
        /\ ka.pc = "run"
        /\ last.r = r
        /\ last.duringRun
        /\ req[r].pc = "done"
        /\ req[r].response.status = StatusOK
        /\ req[r].response.field = "response"

\* C8: the row-limit default the orchestrator sets for a request is 30: for a
\* request that states no limit, the cap handed to the agent is 30.
C8_DefaultCapIs30 ==
    \A r \in Requests :
        (req[r].pc = "invoke" /\ req[r].userinput = "list the vendors") =>
            req[r].top_k = PromptTopK

\* C9: consecutive keep_connection_alive runs start 10 seconds apart.
C9_RunsEvery10Seconds ==
    \A i \in 1..(Len(runStarts) - 1) :
        runStarts[i + 1] - runStarts[i] = DocumentedIntervalSeconds

\* "vendor name inc", the canonical form of the three vendor examples
VendorCanonical == VendorExample2

\* C10: normalizing an already-normalized text returns it unchanged, and
\* "Vendor-Name, Inc.", "vendor name inc" and "VENDOR   NAME INC" all have
\* the same normal form.
C10_NormalizationIdempotentCanonical ==
    /\ Len(nOut) = 2 => nOut[2] = nOut[1]
    /\ (Len(nOut) >= 1 /\ nInput \in VendorExamples) => nOut[1] = VendorCanonical

\* "Vendor-Name, Inc." has been normalized twice
C10_Witness ==
    /\ nInput = VendorExample1
    /\ Len(nOut) = 2
    /\ nOut[1] # nInput

\* t occurs in s, character for character
IsInfix(t, s) ==
    \E i \in 0..(Len(s) - Len(t)) : SubSeq(s, i + 1, i + Len(t)) = t

\* requests whose human message and agent input have been built
Built == {r \in Requests : req[r].invocations > 0}

\* C11: the orchestrator does not normalize the request: the human message
\* and the string passed to agent_executor.invoke hold the question text
\* character for character, and requests whose questions differ, be it only
\* in case or punctuation, reach the agent as different inputs.
C11_QuestionReachesAgentVerbatim ==
    /\ \A r \in Built :
          /\ IsInfix(Chars(req[r].userinput), req[r].human_message)
          /\ IsInfix(Chars(req[r].userinput), req[r].invoked)
    /\ \A r1, r2 \in Built :
          req[r1].userinput # req[r2].userinput =>
              /\ req[r1].human_message # req[r2].human_message
              /\ req[r1].invoked # req[r2].invoked

\* two requests whose questions differ only in case and punctuation have
\* both been handed to the agent
C11_Witness ==
    \E r1, r2 \in Built :
        /\ req[r1].userinput # req[r2].userinput
        /\ Normalize(Chars(req[r1].userinput)) = Normalize(Chars(req[r2].userinput))
        /\ req[r1].invoked # req[r2].invoked

\* C12: every POST /query/ invokes the agent at most once and, once it has
\* completed, has exactly one of two outcomes: the body {"response": output}
\* of the agent, or the fixed 500 error.
C12_OneInvocationTwoOutcomes ==
    \A r \in Requests :
        (req[r].pc = "done" /\ req[r].method = "POST") =>
            /\ req[r].invocations <= 1
            /\ \/ /\ req[r].response.status = StatusOK
                  /\ req[r].response.field = "response"
                  /\ req[r].response.text \in Outputs
               \/ req[r].response = ErrorResponse

\* C13: at most one request is inside agent execution at any time, and it is
\* the one holding the event loop: no two handlers use the shared connection
\* at once; only the keep-alive job's thread runs beside a handler.
C13_OneHandlerInAgent ==
    /\ \A r1, r2 \in Requests :
          (req[r1].pc = "invoke" /\ req[r2].pc = "invoke") => r1 = r2
    /\ \A r \in Requests : req[r].pc = "invoke" => loop = r

\* a handler is inside the agent while the keep-alive job pings the same
\* connection and another request, its connection resolved, waits for the loop
C13_Witness ==
    \E r1, r2 \in Requests :
        /\ req[r1].pc = "invoke"
        /\ req[r2].pc = "handle_query"
        /\ req[r2].db = req[r1].db
        /\ ka.pc = "run"
        /\ ka.db = req[r1].db

====
